---------------------------- MODULE Spec2Model ----------------------------
(***************************************************************************)
(* Model of the denoising prefilter kernels of                             *)
(*   intern/cycles/kernel/filter/filter_prefilter.h                        *)
(* (kernel_filter_divide_shadow, kernel_filter_get_feature,                *)
(* kernel_filter_combine_halves) and of the custom-data reader of          *)
(*   source/blender/pointcache/alembic/abc_customdata.cpp                  *)
(* (CustomDataReader::read_sample and the per-type read_sample dispatch).  *)
(*                                                                         *)
(* A float is modelled as an exact fraction [n, d] in lowest terms with    *)
(* d > 0, or as one of the IEEE specials: +Inf = [1,0], -Inf = [-1,0],     *)
(* NaN = [0,0].  Rounding is not modelled; division by zero, Inf and NaN   *)
(* follow IEEE 754.                                                        *)
(***************************************************************************)
EXTENDS Integers, Sequences, FiniteSets, TLC

VARIABLES
    pc,               \* which call is pending / which calls have returned
    args,             \* the scalar arguments of the pending kernel call
    tiles,            \* TilesInfo: x[4], y[4], offsets[9], strides[9]
    a, b,             \* the two half buffers read by combine_halves
    unfilteredA, unfilteredB, sampleVariance, sampleVarianceV, bufferVariance,
    mean, variance,   \* output arrays (index -> float, written elements only)
    locals,           \* the local variables of the kernels at their return
    store,            \* the property store read by CustomDataReader
    reader            \* CustomDataReader call: layers added, per-layer results, return

vars == <<pc, args, tiles, a, b, unfilteredA, unfilteredB, sampleVariance,
          sampleVarianceV, bufferVariance, mean, variance, locals, store, reader>>

-----------------------------------------------------------------------------
(* Bounds of the model *)

\* pixel coordinates of the tiled image are 0..MaxCoord
MaxCoord == 3
\* sample counts are 1..MaxSample
MaxSample == 5

-----------------------------------------------------------------------------
(* float arithmetic *)

Abs(i) == IF i < 0 THEN -i ELSE i

Sgn(i) == IF i < 0 THEN -1 ELSE IF i > 0 THEN 1 ELSE 0

RECURSIVE Gcd(_, _)
Gcd(i, j) == IF j = 0 THEN i ELSE Gcd(j, i % j)

\* the float n/d, d > 0, in lowest terms
Frac(n, d) ==
    LET g == Gcd(Abs(n), d)
    IN  [n |-> n \div g, d |-> d \div g]

FInt(i) == [n |-> i, d |-> 1]

NaN == [n |-> 0, d |-> 0]

Inf(s) == [n |-> s, d |-> 0]

IsNaN(f) == f.n = 0 /\ f.d = 0

IsInf(f) == f.n # 0 /\ f.d = 0

IsFinite(f) == f.d > 0

FNeg(f) == [n |-> -f.n, d |-> f.d]

FAdd(f, g) ==
    IF IsNaN(f) \/ IsNaN(g) THEN NaN
    ELSE IF IsInf(f) /\ IsInf(g) THEN (IF f.n = g.n THEN f ELSE NaN)
    ELSE IF IsInf(f) THEN f
    ELSE IF IsInf(g) THEN g
    ELSE Frac(f.n * g.d + g.n * f.d, f.d * g.d)

FSub(f, g) == FAdd(f, FNeg(g))

FMul(f, g) ==
    IF IsNaN(f) \/ IsNaN(g) THEN NaN
    ELSE IF IsInf(f) \/ IsInf(g)
         THEN (IF f.n = 0 \/ g.n = 0 THEN NaN ELSE Inf(Sgn(f.n) * Sgn(g.n)))
    ELSE Frac(f.n * g.n, f.d * g.d)

\* f / g; a zero divisor is the +0.0 an int converts to
FDiv(f, g) ==
    IF IsNaN(f) \/ IsNaN(g) THEN NaN
    ELSE IF IsInf(f) THEN (IF IsInf(g) THEN NaN
                           ELSE Inf(Sgn(f.n) * (IF g.n < 0 THEN -1 ELSE 1)))
    ELSE IF IsInf(g) THEN FInt(0)
    ELSE IF g.n = 0 THEN (IF f.n = 0 THEN NaN ELSE Inf(Sgn(f.n)))
    ELSE Frac(f.n * g.d * Sgn(g.n), f.d * Abs(g.n))

\* f > g (false when either is NaN)
FGt(f, g) ==
    IF IsNaN(f) \/ IsNaN(g) THEN FALSE
    ELSE IF IsInf(f) THEN f.n = 1 /\ g # f
    ELSE IF IsInf(g) THEN g.n = -1
    ELSE f.n * g.d > g.n * f.d

\* f >= 0 (false for NaN)
FGeZero(f) == ~IsNaN(f) /\ f.n >= 0

\* max(a, b) == (a > b) ? a : b
FMax(f, g) == IF FGt(f, g) THEN f ELSE g

\* what max(f, g) may return on the builds of the kernel: (f > g) ? f : g on
\* the CPU, fmaxf (which drops a NaN operand) on the GPU
FMaxOutcomes(f, g) ==
    {FMax(f, g)} \cup (IF IsNaN(g) /\ ~IsNaN(f) THEN {f} ELSE {})

\* 1e-7f
Eps == Frac(1, 10000000)

Half == Frac(1, 2)

Quarter == Frac(1, 4)

\* align_up(offset, alignment) for alignment a power of two
AlignUp(offset, alignment) == ((offset + alignment - 1) \div alignment) * alignment

Min(i, j) == IF i < j THEN i ELSE j

Max(i, j) == IF i > j THEN i ELSE j

\* an output array with no element written yet
Unwritten == [i \in {} |-> NaN]

\* the array arr after arr[idx] = v
Store(arr, idx, v) == [i \in (DOMAIN arr) \cup {idx} |-> IF i = idx THEN v ELSE arr[i]]

-----------------------------------------------------------------------------
(* TilesInfo and the render buffers *)

\* center_buffer += buffer_denoising_offset + 14: the shadow sub-record
ShadowOffset == 14

\* floats of a pixel record past the denoising offset: 14 + the 6 shadow floats
RecordLen == ShadowOffset + 6

\* the feature slots (two mean/second-moment pairs) of the pixel records the
\* render buffers are filled with
FeatureSlots ==
    << <<10, 5, 3, 1>>, <<6, 20, 0, 0>>, <<0, 0, 4, 9>>, <<-4, 12, 7, 30>> >>

\* their shadow sub-records: weight, ratio numerator, second moment of A, of B
ShadowSlots ==
    << <<2, 4, 9, 2, 4, 9>>, <<1, 1, 1, 1, 1, 7>>,
       <<0, 0, 0, 2, 1, 3>>, <<4, -2, 5, 3, 2, 0>> >>

NumRecords == Len(FeatureSlots)

\* float k (past the denoising offset) of pixel record number rec
RecordSlot(rec, k) ==
    IF k >= 0 /\ k < 4 THEN FInt(FeatureSlots[rec + 1][k + 1])
    ELSE IF k >= ShadowOffset /\ k < RecordLen
         THEN FInt(ShadowSlots[rec + 1][k - ShadowOffset + 1])
    ELSE FInt(0)

\* ((float*) tiles->buffers[tile])[i]: tile buffers hold one record of
\* buffer_pass_stride floats per pixel, row-major
Buffers(tile, i) ==
    LET loc == i \div args.buffer_pass_stride
        k   == (i % args.buffer_pass_stride) - args.buffer_denoising_offset
    IN  RecordSlot((tile + loc) % NumRecords, k)

\* a TilesInfo of 3x3 tiles with splits x1 < x2 and y1 < y2 over the image
\* 0..MaxCoord: every tile's stride is its width and its offset places its
\* first pixel at the start of its buffer
Layout(x1, x2, y1, y2) ==
    LET xs == [i \in 0..3 |-> <<0, x1, x2, MaxCoord + 1>>[i + 1]]
        ys == [i \in 0..3 |-> <<0, y1, y2, MaxCoord + 1>>[i + 1]]
        width(t) == xs[(t % 3) + 1] - xs[t % 3]
    IN  [x |-> xs, y |-> ys,
         strides |-> [t \in 0..8 |-> width(t)],
         offsets |-> [t \in 0..8 |-> -(ys[t \div 3] * width(t) + xs[t % 3])]]

Layouts ==
    {Layout(x1, x2, y1, y2) : <<x1, x2, y1, y2>> \in
        {q \in (1..MaxCoord) \X (1..MaxCoord) \X (1..MaxCoord) \X (1..MaxCoord) :
            q[1] < q[2] /\ q[3] < q[4]}}

-----------------------------------------------------------------------------
(* kernel_filter_divide_shadow *)

ShadowXTile(ti, x) == IF x < ti.x[1] THEN 0 ELSE IF x < ti.x[2] THEN 1 ELSE 2

ShadowYTile(ti, y) == IF y < ti.y[1] THEN 0 ELSE IF y < ti.y[2] THEN 1 ELSE 2

ShadowTile(ti, x, y) == ShadowYTile(ti, y) * 3 + ShadowXTile(ti, x)

\* center_buffer - tiles->buffers[tile] after line 48
ShadowBase(ti, tile, x, y, buffer_pass_stride) ==
    LET offset == ti.offsets[tile]
        stride == ti.strides[tile]
    IN  (y * stride + x + offset) * buffer_pass_stride

\* mutant: the rectangle's right edge aligned instead of its width
BufferWUnshifted(rect) == AlignUp(rect.z, 4)

BufferW(rect) == AlignUp(rect.z - rect.x, 4)

\* mutant: the row not multiplied by buffer_w
RectIdxNoStride(rect, x, y) == (y - rect.y) + (x - rect.x)

RectIdx(rect, x, y) == (y - rect.y) * BufferW(rect) + (x - rect.x)

\* mutant: the odd half rounded down instead of up
OddSampleRoundedDown(sample) == (sample - 1) \div 2

OddSample(sample) == (sample + 1) \div 2

EvenSample(sample) == sample \div 2

\* mutant: the correction without its floor at zero
SplitCorrectNoFloor(use_split_variance, var, unfiltered, sub_sample) ==
    IF use_split_variance
    THEN FSub(var, FMul(FMul(unfiltered, unfiltered), FInt(sub_sample)))
    ELSE var

\* lines 60-63: the split-variance correction with its floor at zero
SplitCorrect(use_split_variance, var, unfiltered, sub_sample) ==
    IF use_split_variance
    THEN FMax(FInt(0), FSub(var, FMul(FMul(unfiltered, unfiltered), FInt(sub_sample))))
    ELSE var

\* lines 64-65
SubVariance(var, sub_sample) == FDiv(var, FInt(sub_sample - 1))

\* the locals and the five written values of one call
DivideShadowCall(sample, ti, x, y, rect, buffer_pass_stride, buffer_denoising_offset, use_split_variance) ==
    LET tile == ShadowTile(ti, x, y)
        base == ShadowBase(ti, tile, x, y, buffer_pass_stride)
        center_buffer(k) == Buffers(tile, base + buffer_denoising_offset + ShadowOffset + k)
        idx  == RectIdx(rect, x, y)
        uA   == FDiv(center_buffer(1), FMax(center_buffer(0), Eps))
        uB   == FDiv(center_buffer(4), FMax(center_buffer(3), Eps))
        odd_sample  == OddSample(sample)
        even_sample == EvenSample(sample)
        varA == SubVariance(SplitCorrect(use_split_variance, center_buffer(2), uA, odd_sample),
                            odd_sample)
        varB == SubVariance(SplitCorrect(use_split_variance, center_buffer(5), uB, even_sample),
                            even_sample)
    IN  [tile |-> tile, base |-> base, idx |-> idx,
         odd_sample |-> odd_sample, even_sample |-> even_sample,
         varA |-> varA, varB |-> varB,
         unfilteredA |-> uA, unfilteredB |-> uB,
         sampleVariance  |-> FDiv(FMul(Half, FAdd(varA, varB)), FInt(sample)),
         sampleVarianceV |-> FDiv(FMul(FMul(Half, FSub(varA, varB)), FSub(varA, varB)),
                                  FInt(sample * sample)),
         bufferVariance  |-> FMul(FMul(Half, FSub(uA, uB)), FSub(uA, uB))]

DivideShadow ==
    /\ pc.spec = "prefilter"
    /\ "divide_shadow" \notin pc.returned
    /\ LET c == DivideShadowCall(args.sample, tiles, args.x, args.y, args.rect,
                                 args.buffer_pass_stride, args.buffer_denoising_offset,
                                 args.use_split_variance)
       IN  /\ unfilteredA' = Store(unfilteredA, c.idx, c.unfilteredA)
           /\ unfilteredB' = Store(unfilteredB, c.idx, c.unfilteredB)
           /\ sampleVariance'  = Store(sampleVariance, c.idx, c.sampleVariance)
           /\ sampleVarianceV' = Store(sampleVarianceV, c.idx, c.sampleVarianceV)
           /\ bufferVariance'  = Store(bufferVariance, c.idx, c.bufferVariance)
           /\ locals' = [locals EXCEPT !.divide_shadow = c]
    /\ pc' = [pc EXCEPT !.returned = @ \cup {"divide_shadow"}]
    /\ UNCHANGED <<args, tiles, a, b, mean, variance, store, reader>>

-----------------------------------------------------------------------------
(* kernel_filter_get_feature *)

FeatureXTile(ti, x) == IF x < ti.x[1] THEN 0 ELSE IF x < ti.x[2] THEN 1 ELSE 2

FeatureYTile(ti, y) == IF y < ti.y[1] THEN 0 ELSE IF y < ti.y[2] THEN 1 ELSE 2

\* mutant: the tile index transposed
FeatureTileTransposed(ti, x, y) == FeatureXTile(ti, x) * 3 + FeatureYTile(ti, y)

FeatureTile(ti, x, y) == FeatureYTile(ti, y) * 3 + FeatureXTile(ti, x)

\* mutant: the tile's offset left out
FeatureBaseNoOffset(ti, tile, x, y, buffer_pass_stride) ==
    (y * ti.strides[tile] + x) * buffer_pass_stride

\* center_buffer - tiles->buffers[tile] - buffer_denoising_offset, line 93
FeatureBase(ti, tile, x, y, buffer_pass_stride) ==
    (ti.offsets[tile] + y * ti.strides[tile] + x) * buffer_pass_stride

\* line 98
FeatureMean(m, sample) == FDiv(m, FInt(sample))

\* the operand of max() on line 100
FeatureSplitTerm(v, mean_idx, sample) ==
    FDiv(FSub(v, FMul(FMul(mean_idx, mean_idx), FInt(sample))),
         FInt(sample * (sample - 1)))

\* mutant: the biased divisor sample*sample
FeatureDirectBiased(v, sample) == FDiv(v, FInt(sample * sample))

\* line 103
FeatureDirect(v, sample) == FDiv(v, FInt(sample * (sample - 1)))

\* the locals of one call, the written mean and the values the build may
\* write to variance[idx]
GetFeatureCall(sample, ti, m_offset, v_offset, x, y, rect, buffer_pass_stride, buffer_denoising_offset, use_split_variance) ==
    LET tile == FeatureTile(ti, x, y)
        base == FeatureBase(ti, tile, x, y, buffer_pass_stride)
        center_buffer(k) == Buffers(tile, base + buffer_denoising_offset + k)
        idx  == RectIdx(rect, x, y)
        mean_idx == FeatureMean(center_buffer(m_offset), sample)
    IN  [tile |-> tile, base |-> base, idx |-> idx,
         m |-> center_buffer(m_offset), v |-> center_buffer(v_offset),
         mean |-> mean_idx,
         variances |->
            IF use_split_variance
            THEN FMaxOutcomes(FInt(0),
                              FeatureSplitTerm(center_buffer(v_offset), mean_idx, sample))
            ELSE {FeatureDirect(center_buffer(v_offset), sample)}]

GetFeature ==
    /\ pc.spec = "prefilter"
    /\ "get_feature" \notin pc.returned
    /\ LET c == GetFeatureCall(args.sample, tiles, args.m_offset, args.v_offset,
                               args.x, args.y, args.rect, args.buffer_pass_stride,
                               args.buffer_denoising_offset, args.use_split_variance)
       IN  /\ mean' = Store(mean, c.idx, c.mean)
           /\ \E val \in c.variances : variance' = Store(variance, c.idx, val)
           /\ locals' = [locals EXCEPT !.get_feature = c]
    /\ pc' = [pc EXCEPT !.returned = @ \cup {"get_feature"}]
    /\ UNCHANGED <<args, tiles, a, b, unfilteredA, unfilteredB, sampleVariance,
                   sampleVarianceV, bufferVariance, store, reader>>

-----------------------------------------------------------------------------
(* the prefilter calls on one pixel of a tiled render *)

NoLocals == [divide_shadow |-> <<>>, get_feature |-> <<>>, combine_halves |-> <<>>]

NoStore == <<>>

NoReader == <<>>

FullRect == [x |-> 0, y |-> 0, z |-> MaxCoord + 1, w |-> MaxCoord + 1]

InitPrefilter ==
    /\ pc = [spec |-> "prefilter", returned |-> {}]
    /\ tiles \in Layouts
    /\ \E sample \in 1..MaxSample, x \in 0..MaxCoord, y \in 0..MaxCoord,
          den \in 0..1, mv \in {<<0, 1>>, <<2, 3>>}, split \in BOOLEAN :
          args = [sample |-> sample, x |-> x, y |-> y, rect |-> FullRect,
                  buffer_pass_stride |-> den + RecordLen,
                  buffer_denoising_offset |-> den,
                  m_offset |-> mv[1], v_offset |-> mv[2],
                  use_split_variance |-> split]
    /\ a = Unwritten /\ b = Unwritten
    /\ unfilteredA = Unwritten /\ unfilteredB = Unwritten
    /\ sampleVariance = Unwritten /\ sampleVarianceV = Unwritten
    /\ bufferVariance = Unwritten
    /\ mean = Unwritten /\ variance = Unwritten
    /\ locals = NoLocals
    /\ store = NoStore /\ reader = NoReader

NextPrefilter == DivideShadow \/ GetFeature

SpecPrefilter == InitPrefilter /\ [][NextPrefilter]_vars

-----------------------------------------------------------------------------
(* Claims about the Shadow Divider *)

ShadowReturned == pc.spec = "prefilter" /\ "divide_shadow" \in pc.returned

FeatureReturned == pc.spec = "prefilter" /\ "get_feature" \in pc.returned

\* C1 as stated: for every sample >= 2 neither divisor (odd_sample - 1) nor
\* (even_sample - 1) of the two variance divisions is zero.
C1_SampleTwoSuffices ==
    (ShadowReturned /\ args.sample >= 2)
        => /\ locals.divide_shadow.odd_sample - 1 # 0
           /\ locals.divide_shadow.even_sample - 1 # 0

\* C1 amended: for every sample >= 4, with odd_sample = ceil(sample/2) and
\* even_sample = floor(sample/2), neither divisor is zero and both divided
\* variances are finite; at sample 2 and 3 the divisor (even_sample - 1) is zero.
C1_SampleFourSuffices ==
    ShadowReturned =>
        /\ locals.divide_shadow.odd_sample * 2 \in {args.sample, args.sample + 1}
        /\ locals.divide_shadow.even_sample * 2 \in {args.sample, args.sample - 1}
        /\ args.sample >= 4 =>
              /\ locals.divide_shadow.odd_sample - 1 # 0
              /\ locals.divide_shadow.even_sample - 1 # 0
              /\ IsFinite(locals.divide_shadow.varA)
              /\ IsFinite(locals.divide_shadow.varB)
        /\ args.sample \in {2, 3} =>
              /\ locals.divide_shadow.even_sample - 1 = 0
              /\ ~IsFinite(locals.divide_shadow.varB)

C1_Witness ==
    /\ ShadowReturned
    /\ args.sample = 4
    /\ locals.divide_shadow.odd_sample = 2
    /\ locals.divide_shadow.even_sample = 2
    /\ IsFinite(sampleVariance[locals.divide_shadow.idx])

\* C2 as stated: with use_split_variance, for any sample count >= 1 the written
\* sampleVariance[idx] and sampleVarianceV[idx] are both >= 0.
C2_NonNegativeAnySample ==
    (ShadowReturned /\ args.use_split_variance /\ args.sample >= 1)
        => /\ FGeZero(sampleVariance[locals.divide_shadow.idx])
           /\ FGeZero(sampleVarianceV[locals.divide_shadow.idx])

\* C2 amended: with use_split_variance, for any sample count >= 4 and any
\* record, the written sampleVariance[idx] and sampleVarianceV[idx] are
\* both >= 0 (and not NaN).
C2_NonNegativeFromFour ==
    (ShadowReturned /\ args.use_split_variance /\ args.sample >= 4)
        => /\ FGeZero(sampleVariance[locals.divide_shadow.idx])
           /\ FGeZero(sampleVarianceV[locals.divide_shadow.idx])

\* the floor is active for one half (varA = 0) and not for the other
C2_Witness ==
    /\ ShadowReturned /\ args.use_split_variance /\ args.sample >= 4
    /\ locals.divide_shadow.varA = FInt(0)
    /\ locals.divide_shadow.varB.n > 0
    /\ sampleVariance[locals.divide_shadow.idx].n > 0
    /\ sampleVarianceV[locals.divide_shadow.idx].n > 0

-----------------------------------------------------------------------------
(* Claims about the Tile Locator and the Feature Loader *)

\* the bin of coordinate c among the splits s[1] < s[2]
Bin(s, c) == IF c < s[1] THEN 0 ELSE IF c < s[2] THEN 1 ELSE 2

\* coordinate c lies in bin k of the splits s
InBin(s, k, c) ==
    CASE k = 0 -> c < s[1]
      [] k = 1 -> s[1] <= c /\ c < s[2]
      [] k = 2 -> s[2] <= c

\* the tiles whose column and row ranges hold pixel (x, y)
TilesHolding(ti, x, y) ==
    {t \in 0..8 : InBin(ti.x, t % 3, x) /\ InBin(ti.y, t \div 3, y)}

\* C6: both kernels compute the same tile index ytile*3 + xtile in 0..8, by
\* the bins of x and y among the strictly increasing splits, and the same
\* record base offset (y*stride + x + tile_offset)*pass_stride; the pixel
\* lies in exactly one tile, the computed one.
C6_TileLocator ==
    (ShadowReturned /\ FeatureReturned) =>
        LET tile == Bin(tiles.y, args.y) * 3 + Bin(tiles.x, args.x)
        IN  /\ tiles.x[1] < tiles.x[2] /\ tiles.y[1] < tiles.y[2]
            /\ locals.divide_shadow.tile = tile
            /\ locals.get_feature.tile = tile
            /\ tile \in 0..8
            /\ TilesHolding(tiles, args.x, args.y) = {tile}
            /\ locals.divide_shadow.base =
                  (args.y * tiles.strides[tile] + args.x + tiles.offsets[tile])
                      * args.buffer_pass_stride
            /\ locals.get_feature.base = locals.divide_shadow.base

\* a pixel of the last tile, past the first row and column of the image
C6_Witness ==
    /\ ShadowReturned /\ FeatureReturned
    /\ locals.divide_shadow.tile = 8 /\ locals.get_feature.tile = 8
    /\ args.x > tiles.x[2] /\ args.y > tiles.y[2]
    /\ locals.get_feature.base > 0

\* the floats at m_offset and v_offset of the record the Tile Locator
\* contract resolves pixel (x, y) to under layout ti
ResolvedRecord(ti, x, y) ==
    LET tile == Bin(ti.y, y) * 3 + Bin(ti.x, x)
        base == (y * ti.strides[tile] + x + ti.offsets[tile]) * args.buffer_pass_stride
                    + args.buffer_denoising_offset
    IN  [tile |-> tile,
         m |-> Buffers(tile, base + args.m_offset),
         v |-> Buffers(tile, base + args.v_offset)]

\* the call of get_feature on pixel (x, y) under layout ti, other arguments as given
FeatureCallAt(ti, x, y) ==
    GetFeatureCall(args.sample, ti, args.m_offset, args.v_offset, x, y, args.rect,
                   args.buffer_pass_stride, args.buffer_denoising_offset,
                   args.use_split_variance)

\* C7: for another layout, or another pixel, whose record lies in a different
\* tile but has identical contents at the resolved location, get_feature
\* writes the same mean and variance (same sample, offsets, rectangle, flag).
C7_TileAgnostic ==
    FeatureReturned =>
        LET here == ResolvedRecord(tiles, args.x, args.y)
            same(other) == other.tile # here.tile /\ other.m = here.m /\ other.v = here.v
            wrote == [mean |-> mean[locals.get_feature.idx],
                      variance |-> variance[locals.get_feature.idx]]
            agrees(c) == c.mean = wrote.mean /\ wrote.variance \in c.variances
        IN  /\ \A ti \in Layouts :
                  same(ResolvedRecord(ti, args.x, args.y))
                      => agrees(FeatureCallAt(ti, args.x, args.y))
            /\ \A x \in 0..MaxCoord, y \in 0..MaxCoord :
                  same(ResolvedRecord(tiles, x, y))
                      => agrees(FeatureCallAt(tiles, x, y))

\* another layout stores an identical record for the pixel in another tile
C7_Witness ==
    /\ FeatureReturned
    /\ args.sample >= 2
    /\ mean[locals.get_feature.idx].n # 0
    /\ \E ti \in Layouts :
          LET here  == ResolvedRecord(tiles, args.x, args.y)
              other == ResolvedRecord(ti, args.x, args.y)
          IN  /\ other.tile # here.tile /\ other.m = here.m /\ other.v = here.v
              /\ ti.strides[other.tile] # tiles.strides[here.tile]
              /\ ti.offsets[other.tile] # tiles.offsets[here.tile]

\* C8: for every sample >= 2, mean[idx] = record[m_offset]/sample, and
\* variance[idx] = max(0, (record[v_offset] - mean^2*sample)/(sample*(sample-1)))
\* with the split flag (so never negative), record[v_offset]/(sample*(sample-1))
\* without; sample = 2, record[m_offset] = 10, record[v_offset] = 5, flag off
\* gives mean 5 and variance 2.5.
C8_FeatureLoader ==
    (FeatureReturned /\ args.sample >= 2) =>
        LET rec == ResolvedRecord(tiles, args.x, args.y)
            s   == args.sample
            mu  == mean[locals.get_feature.idx]
            var == variance[locals.get_feature.idx]
            corrected == FDiv(FSub(rec.v, FMul(FMul(mu, mu), FInt(s))), FInt(s * (s - 1)))
        IN  /\ mu = FDiv(rec.m, FInt(s))
            /\ args.use_split_variance =>
                  /\ var = (IF corrected.n > 0 THEN corrected ELSE FInt(0))
                  /\ IsFinite(var) /\ var.n >= 0
            /\ ~args.use_split_variance => var = FDiv(rec.v, FInt(s * (s - 1)))
            /\ (s = 2 /\ rec.m = FInt(10) /\ rec.v = FInt(5) /\ ~args.use_split_variance)
                  => mu = FInt(5) /\ var = Frac(5, 2)

C8_Witness ==
    /\ FeatureReturned
    /\ args.sample = 2 /\ ~args.use_split_variance
    /\ locals.get_feature.m = FInt(10) /\ locals.get_feature.v = FInt(5)
    /\ mean[locals.get_feature.idx] = FInt(5)
    /\ variance[locals.get_feature.idx] = Frac(5, 2)

-----------------------------------------------------------------------------
(* kernel_filter_combine_halves *)

\* float values[25]
ValuesCapacity == 25

\* line 119
CombineMean(ai, bi) == FMul(Half, FAdd(ai, bi))

\* mutant: one factor of the square replaced by a[idx]
PointVarianceSkewed(ai, bi) == FMul(FMul(Quarter, FSub(ai, bi)), ai)

\* line 121
PointVariance(ai, bi) == FMul(FMul(Quarter, FSub(ai, bi)), FSub(ai, bi))

\* mutant: the factor 0.5f of the shadow divider's buffer variance
WindowValueHalf(ai, bi) == FMul(FMul(Half, FSub(ai, bi)), FSub(ai, bi))

\* line 129
WindowValue(ai, bi) == FMul(FMul(Quarter, FSub(ai, bi)), FSub(ai, bi))

\* mutant: the column loop run one pixel further, to x + r + 1 inclusive
WindowIndicesWide(x, y, rect, r) ==
    LET buffer_w == BufferW(rect)
        py0 == Max(y - r, rect.y)
        py1 == Min(y + r + 1, rect.w)
        px0 == Max(x - r, rect.x)
        px1 == Min(x + r + 2, rect.z)
        rows == Max(py1 - py0, 0)
        cols == Max(px1 - px0, 0)
    IN  [k \in 1..(rows * cols) |->
            LET py == py0 + ((k - 1) \div cols)
                px == px0 + ((k - 1) % cols)
            IN  (py - rect.y) * buffer_w + (px - rect.x)]

\* the bounds of the loops of lines 126-127 and the pidx of line 128, in the
\* order the loops visit them
WindowIndices(x, y, rect, r) ==
    LET buffer_w == BufferW(rect)
        py0 == Max(y - r, rect.y)
        py1 == Min(y + r + 1, rect.w)
        px0 == Max(x - r, rect.x)
        px1 == Min(x + r + 1, rect.z)
        rows == Max(py1 - py0, 0)
        cols == Max(px1 - px0, 0)
    IN  [k \in 1..(rows * cols) |->
            LET py == py0 + ((k - 1) \div cols)
                px == px0 + ((k - 1) % cols)
            IN  (py - rect.y) * buffer_w + (px - rect.x)]

\* the inner loop of lines 136-138: shift the elements above v up from
\* position j (0-based) down, then store v
RECURSIVE InsertShift(_, _, _)
InsertShift(values, j, v) ==
    IF j >= 0 /\ FGt(values[j + 1], v)
    THEN InsertShift([values EXCEPT ![j + 2] = values[j + 1]], j - 1, v)
    ELSE [values EXCEPT ![j + 2] = v]

\* the outer loop of lines 133-139 from index i (0-based) on
RECURSIVE InsertFrom(_, _, _)
InsertFrom(values, i, numValues) ==
    IF i < numValues
    THEN InsertFrom(InsertShift(values, i - 1, values[i + 1]), i + 1, numValues)
    ELSE values

\* mutant: the outer loop started at i = 2
InsertionSortFromSecond(values, numValues) == InsertFrom(values, 2, numValues)

InsertionSort(values, numValues) == InsertFrom(values, 1, numValues)

\* mutant: the last position, the maximum
RankIndexLast(numValues) == numValues - 1

\* line 140: the index read after the sort
RankIndex(numValues) == (7 * numValues) \div 8

\* what a call whose window overflows values[25] may write to variance[idx]
OverflowOutcomes == {FInt(0), NaN, Inf(1)}

\* the locals of one call, the written mean, and the values the call may write
\* to variance[idx]; ha and hb are the arrays a and b
CombineHalvesCall(x, y, ha, hb, rect, r) ==
    LET idx == RectIdx(rect, x, y)
        window == WindowIndices(x, y, rect, r)
        numValues == Len(window)
        gathered == [k \in 1..numValues |-> WindowValue(ha[window[k]], hb[window[k]])]
        overflow == r # 0 /\ numValues > ValuesCapacity
        values == IF r = 0 \/ overflow THEN <<>> ELSE InsertionSort(gathered, numValues)
    IN  [idx |-> idx, window |-> window, numValues |-> numValues,
         gathered |-> gathered, values |-> values, overflow |-> overflow,
         mean |-> CombineMean(ha[idx], hb[idx]),
         variances |->
            IF r = 0 THEN {PointVariance(ha[idx], hb[idx])}
            ELSE IF overflow THEN OverflowOutcomes
            ELSE {values[RankIndex(numValues) + 1]}]

CombineHalves ==
    /\ pc.spec = "combine"
    /\ "combine_halves" \notin pc.returned
    /\ LET c == CombineHalvesCall(args.x, args.y, a, b, args.rect, args.r)
       IN  /\ mean' = IF args.has_mean THEN Store(mean, c.idx, c.mean) ELSE mean
           /\ IF args.has_variance
              THEN \E val \in c.variances : variance' = Store(variance, c.idx, val)
              ELSE variance' = variance
           /\ locals' = [locals EXCEPT !.combine_halves = c]
    /\ pc' = [pc EXCEPT !.returned = @ \cup {"combine_halves"}]
    /\ UNCHANGED <<args, tiles, a, b, unfilteredA, unfilteredB, sampleVariance,
                   sampleVarianceV, bufferVariance, store, reader>>

\* rectangles are at most MaxRect pixels wide and high
MaxRect == 5
\* window radii are 0..MaxRadius
MaxRadius == 2

\* the contents of the half buffers a and b at index i; f is the index of the
\* filtered pixel
HalfPatterns == {"distinct", "firefly", "flat", "mixed"}

HalfA(pattern, i, f) ==
    CASE pattern = "distinct" -> FInt((7 * i) % 41)
      [] pattern = "firefly"  -> IF i = f THEN FInt(50) ELSE FInt(i % 3)
      [] pattern = "flat"     -> FInt(i + 2)
      [] pattern = "mixed"    -> Frac(i % 5, 2)

HalfB(pattern, i, f) ==
    CASE pattern = "distinct" -> FInt(0)
      [] pattern = "firefly"  -> FInt(i % 2)
      [] pattern = "flat"     -> FInt(i)
      [] pattern = "mixed"    -> FInt(1)

InitCombine ==
    /\ pc = [spec |-> "combine", returned |-> {}]
    /\ tiles = <<>>
    /\ \E origin \in {<<0, 0>>, <<1, 2>>}, w \in 1..MaxRect, h \in 1..MaxRect,
          r \in 0..MaxRadius, pattern \in HalfPatterns,
          out \in {<<TRUE, TRUE>>, <<FALSE, TRUE>>, <<TRUE, FALSE>>} :
          \E x \in origin[1]..(origin[1] + w - 1), y \in origin[2]..(origin[2] + h - 1) :
             LET rect == [x |-> origin[1], y |-> origin[2],
                          z |-> origin[1] + w, w |-> origin[2] + h]
                 size == BufferW(rect) * h
             IN  /\ args = [x |-> x, y |-> y, rect |-> rect, r |-> r,
                            has_mean |-> out[1], has_variance |-> out[2]]
                 /\ a = [i \in 0..(size - 1) |-> HalfA(pattern, i, RectIdx(rect, x, y))]
                 /\ b = [i \in 0..(size - 1) |-> HalfB(pattern, i, RectIdx(rect, x, y))]
    /\ unfilteredA = Unwritten /\ unfilteredB = Unwritten
    /\ sampleVariance = Unwritten /\ sampleVarianceV = Unwritten
    /\ bufferVariance = Unwritten
    /\ mean = Unwritten /\ variance = Unwritten
    /\ locals = NoLocals
    /\ store = NoStore /\ reader = NoReader

NextCombine == CombineHalves

SpecCombine == InitCombine /\ [][NextCombine]_vars

-----------------------------------------------------------------------------
(* Claims about the Half Combiner *)

CombineReturned == pc.spec = "combine" /\ "combine_halves" \in pc.returned

\* a windowed call that wrote variance[idx] from a window that fits values[25]
WindowedReturned ==
    /\ CombineReturned /\ args.has_variance /\ args.r > 0
    /\ locals.combine_halves.numValues >= 1
    /\ locals.combine_halves.numValues <= ValuesCapacity

\* the pixels of the window [x-r, x+r] x [y-r, y+r] clipped to the rectangle
ClippedWindow ==
    {q \in (args.rect.x..(args.rect.z - 1)) \X (args.rect.y..(args.rect.w - 1)) :
        /\ q[1] >= args.x - args.r /\ q[1] <= args.x + args.r
        /\ q[2] >= args.y - args.r /\ q[2] <= args.y + args.r}

\* 0.25*(a[p]-b[p])^2 at pixel q of the rectangle
ValueAt(q) ==
    LET p    == (q[2] - args.rect.y) * BufferW(args.rect) + (q[1] - args.rect.x)
        diff == FSub(a[p], b[p])
    IN  FMul(Quarter, FMul(diff, diff))

\* the window holds a single value strictly greater than all the others
SingleHighest(q) == \A o \in ClippedWindow \ {q} : FGt(ValueAt(q), ValueAt(o))

\* C4 as stated: for every window of 1 <= numValues <= 25 values with a single
\* value strictly greater than all the others, the value written to
\* variance[idx] is not that highest value.
C4_OutlierRejected ==
    WindowedReturned =>
        \A q \in ClippedWindow :
            SingleHighest(q) => variance[locals.combine_halves.idx] # ValueAt(q)

\* C4 amended: for every window of 9 <= numValues <= 25 values with a single
\* value strictly greater than all the others, the value written to
\* variance[idx] is not that highest value; for numValues <= 8 it is.
C4_OutlierRejectedFromNine ==
    WindowedReturned =>
        \A q \in ClippedWindow :
            SingleHighest(q) =>
                /\ locals.combine_halves.numValues >= 9
                      => FGt(ValueAt(q), variance[locals.combine_halves.idx])
                /\ locals.combine_halves.numValues <= 8
                      => variance[locals.combine_halves.idx] = ValueAt(q)

\* a full 25-value window around a firefly
C4_Witness ==
    /\ WindowedReturned
    /\ locals.combine_halves.numValues = 25
    /\ SingleHighest(<<args.x, args.y>>)
    /\ ValueAt(<<args.x, args.y>>).n > 100
    /\ FGt(ValueAt(<<args.x, args.y>>), variance[locals.combine_halves.idx])

\* C5: after the insertion sort the gathered values are an ascending
\* permutation of the values 0.25*(a[p]-b[p])^2 of the clipped window;
\* variance[idx] is the element at ascending position floor(7*numValues/8),
\* which lies in 0..numValues-1; at counts 1, 8, 9 and 25 the position is 0, 7,
\* 7 and 21, so for 8 distinct values the maximum is selected.
C5_RankSelection ==
    WindowedReturned =>
        LET c      == locals.combine_halves
            n      == c.numValues
            sorted == c.values
            pos    == CHOOSE k \in 0..ValuesCapacity : 8 * k <= 7 * n /\ 7 * n < 8 * (k + 1)
        IN  /\ n = Cardinality(ClippedWindow)
            /\ Len(sorted) = n
            /\ \A k \in 1..(n - 1) : ~FGt(sorted[k], sorted[k + 1])
            /\ \A q \in ClippedWindow :
                  Cardinality({k \in 1..n : sorted[k] = ValueAt(q)})
                      = Cardinality({o \in ClippedWindow : ValueAt(o) = ValueAt(q)})
            /\ pos \in 0..(n - 1)
            /\ variance[c.idx] = sorted[pos + 1]
            /\ n = 1 => pos = 0
            /\ n = 8 => pos = 7
            /\ n = 9 => pos = 7
            /\ n = 25 => pos = 21
            /\ (n = 8 /\ Cardinality({ValueAt(q) : q \in ClippedWindow}) = 8)
                  => \A q \in ClippedWindow : ~FGt(ValueAt(q), variance[c.idx])

\* eight distinct values, gathered out of order, of which the maximum is written
C5_Witness ==
    /\ WindowedReturned
    /\ locals.combine_halves.numValues = 8
    /\ \A k, l \in 1..8 : k # l => locals.combine_halves.values[k] # locals.combine_halves.values[l]
    /\ locals.combine_halves.values # locals.combine_halves.gathered
    /\ variance[locals.combine_halves.idx] = locals.combine_halves.values[8]

\* C9: with r == 0, the call with a and b swapped writes the same mean[idx]
\* and the same variance[idx] as the unswapped call.
C9_SwapSymmetric ==
    (CombineReturned /\ args.r = 0) =>
        LET swapped == CombineHalvesCall(args.x, args.y, b, a, args.rect, args.r)
            idx     == locals.combine_halves.idx
        IN  /\ swapped.idx = idx
            /\ args.has_mean => mean[idx] = swapped.mean
            /\ args.has_variance => variance[idx] \in swapped.variances
            /\ Cardinality(swapped.variances) = 1

C9_Witness ==
    /\ CombineReturned /\ args.r = 0 /\ args.has_mean /\ args.has_variance
    /\ a[locals.combine_halves.idx] # b[locals.combine_halves.idx]
    /\ variance[locals.combine_halves.idx].n > 0
    /\ mean[locals.combine_halves.idx].n > 0

\* C10: for a single-pixel rectangle and any radius r >= 1 the clipped window
\* holds exactly one value and the windowed mode writes the same variance[idx]
\* as the pointwise mode r == 0, namely 0.25*(a[idx]-b[idx])^2.
C10_SinglePixel ==
    (CombineReturned /\ args.has_variance /\ args.r >= 1
        /\ args.rect.z = args.rect.x + 1 /\ args.rect.w = args.rect.y + 1) =>
        LET pointwise == CombineHalvesCall(args.x, args.y, a, b, args.rect, 0)
            idx       == locals.combine_halves.idx
            diff      == FSub(a[idx], b[idx])
        IN  /\ locals.combine_halves.numValues = 1
            /\ Cardinality(ClippedWindow) = 1
            /\ pointwise.variances = {variance[idx]}
            /\ variance[idx] = FMul(Quarter, FMul(diff, diff))

C10_Witness ==
    /\ CombineReturned /\ args.has_variance /\ args.r = 2
    /\ args.rect.z = args.rect.x + 1 /\ args.rect.w = args.rect.y + 1
    /\ locals.combine_halves.numValues = 1
    /\ variance[locals.combine_halves.idx].n > 0

\* C13: for every radius 1 <= r <= 2, every rectangle and every pixel inside
\* it, the number of values gathered from the clipped window satisfies
\* 1 <= numValues <= (2r+1)^2 <= 25, so every write values[numValues++] and
\* the read values[(7*numValues)/8] stay inside the 25-element buffer.
C13_WindowCapacity ==
    (CombineReturned /\ args.r >= 1 /\ args.r <= 2) =>
        LET n    == locals.combine_halves.numValues
            side == 2 * args.r + 1
        IN  /\ n = Cardinality(ClippedWindow)
            /\ 1 <= n /\ n <= side * side /\ side * side <= ValuesCapacity
            /\ ~locals.combine_halves.overflow
            /\ \A k \in 1..n : k - 1 \in 0..(ValuesCapacity - 1)
            /\ RankIndex(n) \in 0..(n - 1)
            /\ RankIndex(n) \in 0..(ValuesCapacity - 1)
            /\ args.has_variance => Len(locals.combine_halves.values) = n

\* a window that fills the buffer
C13_Witness ==
    /\ CombineReturned /\ args.r = 2 /\ args.has_variance
    /\ locals.combine_halves.numValues = ValuesCapacity
    /\ Len(locals.combine_halves.values) = ValuesCapacity

-----------------------------------------------------------------------------
(* the three kernels on the pixels of every prefilter rectangle *)

\* divide_shadow and get_feature on a pixel of any rectangle of the tiled image
InitRect ==
    /\ pc = [spec |-> "prefilter", returned |-> {}]
    /\ tiles = Layout(1, 2, 1, 2)
    /\ \E x \in 0..MaxCoord, y \in 0..MaxCoord :
          \E x0 \in 0..x, y0 \in 0..y, x1 \in (x + 1)..(MaxCoord + 1), y1 \in (y + 1)..(MaxCoord + 1) :
             args = [sample |-> MaxSample, x |-> x, y |-> y,
                     rect |-> [x |-> x0, y |-> y0, z |-> x1, w |-> y1],
                     buffer_pass_stride |-> RecordLen,
                     buffer_denoising_offset |-> 0,
                     m_offset |-> 0, v_offset |-> 1,
                     use_split_variance |-> TRUE]
    /\ a = Unwritten /\ b = Unwritten
    /\ unfilteredA = Unwritten /\ unfilteredB = Unwritten
    /\ sampleVariance = Unwritten /\ sampleVarianceV = Unwritten
    /\ bufferVariance = Unwritten
    /\ mean = Unwritten /\ variance = Unwritten
    /\ locals = NoLocals
    /\ store = NoStore /\ reader = NoReader

InitIndex == InitRect \/ InitCombine

NextIndex == DivideShadow \/ GetFeature \/ CombineHalves

SpecIndex == InitIndex /\ [][NextIndex]_vars

\* the width of the rectangle rounded up to a multiple of 4
RowWidth(rect) ==
    CHOOSE m \in 0..(rect.z - rect.x + 3) :
        m % 4 = 0 /\ m >= rect.z - rect.x /\ m < rect.z - rect.x + 4

\* idx is an element of an array of rowWidth * (y1 - y0) elements
InArray(rect, idx) == 0 <= idx /\ idx < RowWidth(rect) * (rect.w - rect.y)

\* C12: for every rectangle with x0 < x1 and y0 < y1 and every pixel with
\* x0 <= x < x1, y0 <= y < y1, the index idx = (y-y0)*rowWidth + (x-x0), with
\* rowWidth the width rounded up to a multiple of 4, satisfies
\* 0 <= idx < rowWidth*(y1-y0) in all three kernels, and so does every window
\* index pidx the Half Combiner reads, for any radius r >= 0.
C12_RectIndexing ==
    LET rect == args.rect
        idx  == (args.y - rect.y) * RowWidth(rect) + (args.x - rect.x)
        inside == /\ rect.x < rect.z /\ rect.y < rect.w
                  /\ rect.x <= args.x /\ args.x < rect.z
                  /\ rect.y <= args.y /\ args.y < rect.w
    IN  /\ ShadowReturned =>
              /\ inside
              /\ locals.divide_shadow.idx = idx /\ InArray(rect, idx)
              /\ DOMAIN unfilteredA = {idx} /\ DOMAIN unfilteredB = {idx}
              /\ DOMAIN sampleVariance = {idx} /\ DOMAIN sampleVarianceV = {idx}
              /\ DOMAIN bufferVariance = {idx}
        /\ FeatureReturned =>
              /\ inside
              /\ locals.get_feature.idx = idx /\ InArray(rect, idx)
              /\ DOMAIN mean = {idx} /\ DOMAIN variance = {idx}
        /\ CombineReturned =>
              /\ inside
              /\ locals.combine_halves.idx = idx /\ InArray(rect, idx)
              /\ args.has_mean => DOMAIN mean = {idx}
              /\ args.has_variance => DOMAIN variance = {idx}
              /\ \A k \in 1..Len(locals.combine_halves.window) :
                    InArray(rect, locals.combine_halves.window[k])

\* the last pixel of a rectangle five pixels wide, whose rows are eight apart
C12_Witness ==
    /\ CombineReturned /\ args.r = 2
    /\ args.rect.z - args.rect.x = 5 /\ args.rect.w - args.rect.y >= 2
    /\ args.rect.x > 0 /\ args.rect.y > 0
    /\ args.x = args.rect.z - 1 /\ args.y = args.rect.w - 1
    /\ locals.combine_halves.idx = 8 * (args.rect.w - args.rect.y) - 4
    /\ Len(locals.combine_halves.window) = 9

-----------------------------------------------------------------------------
(* one pass of a kernel over the pixels of the rectangle, in any order *)

\* the elements one call of divide_shadow reads and writes: an element is
\* <<array, index>>, or <<"buffers", tile, index>> for a tile buffer
ShadowAccess(c, buffer_denoising_offset) ==
    [reads  |-> {<<"buffers", c.tile, c.base + buffer_denoising_offset + ShadowOffset + k>> : k \in 0..5}
                    \cup {<<"unfilteredA", c.idx>>, <<"unfilteredB", c.idx>>},
     writes |-> {<<"unfilteredA", c.idx>>, <<"unfilteredB", c.idx>>,
                 <<"sampleVariance", c.idx>>, <<"sampleVarianceV", c.idx>>,
                 <<"bufferVariance", c.idx>>}]

\* the elements one call of get_feature reads and writes
FeatureAccess(c, buffer_denoising_offset, m_offset, v_offset, use_split_variance) ==
    [reads  |-> {<<"buffers", c.tile, c.base + buffer_denoising_offset + m_offset>>,
                 <<"buffers", c.tile, c.base + buffer_denoising_offset + v_offset>>}
                    \cup (IF use_split_variance THEN {<<"mean", c.idx>>} ELSE {}),
     writes |-> {<<"mean", c.idx>>, <<"variance", c.idx>>}]

\* the elements one call of combine_halves reads and writes
CombineAccess(c, r, has_mean, has_variance) ==
    [reads  |-> (IF has_mean \/ (has_variance /\ r = 0)
                 THEN {<<"a", c.idx>>, <<"b", c.idx>>} ELSE {})
                    \cup (IF has_variance /\ r # 0
                          THEN {<<"a", c.window[k]>> : k \in 1..Len(c.window)}
                                  \cup {<<"b", c.window[k]>> : k \in 1..Len(c.window)}
                          ELSE {}),
     writes |-> (IF has_mean THEN {<<"mean", c.idx>>} ELSE {})
                    \cup (IF has_variance THEN {<<"variance", c.idx>>} ELSE {})]

\* the pixels of the rectangle
PassPixels == (args.rect.x..(args.rect.z - 1)) \X (args.rect.y..(args.rect.w - 1))

\* the invocation for pixel q has returned
Invoked(q, access) ==
    /\ locals' = [o \in pc.done \cup {q} |-> IF o = q THEN access ELSE locals[o]]
    /\ pc' = [pc EXCEPT !.done = @ \cup {q}]

PassDivideShadow ==
    /\ pc.spec = "pass" /\ pc.op = "divide_shadow"
    /\ \E q \in PassPixels \ pc.done :
          LET c == DivideShadowCall(args.sample, tiles, q[1], q[2], args.rect,
                                    args.buffer_pass_stride, args.buffer_denoising_offset,
                                    args.use_split_variance)
          IN  /\ unfilteredA' = Store(unfilteredA, c.idx, c.unfilteredA)
              /\ unfilteredB' = Store(unfilteredB, c.idx, c.unfilteredB)
              /\ sampleVariance'  = Store(sampleVariance, c.idx, c.sampleVariance)
              /\ sampleVarianceV' = Store(sampleVarianceV, c.idx, c.sampleVarianceV)
              /\ bufferVariance'  = Store(bufferVariance, c.idx, c.bufferVariance)
              /\ Invoked(q, ShadowAccess(c, args.buffer_denoising_offset))
    /\ UNCHANGED <<args, tiles, a, b, mean, variance, store, reader>>

PassGetFeature ==
    /\ pc.spec = "pass" /\ pc.op = "get_feature"
    /\ \E q \in PassPixels \ pc.done :
          LET c == GetFeatureCall(args.sample, tiles, args.m_offset, args.v_offset,
                                  q[1], q[2], args.rect, args.buffer_pass_stride,
                                  args.buffer_denoising_offset, args.use_split_variance)
          IN  /\ mean' = Store(mean, c.idx, c.mean)
              /\ \E val \in c.variances : variance' = Store(variance, c.idx, val)
              /\ Invoked(q, FeatureAccess(c, args.buffer_denoising_offset, args.m_offset,
                                          args.v_offset, args.use_split_variance))
    /\ UNCHANGED <<args, tiles, a, b, unfilteredA, unfilteredB, sampleVariance,
                   sampleVarianceV, bufferVariance, store, reader>>

PassCombineHalves ==
    /\ pc.spec = "pass" /\ pc.op = "combine_halves"
    /\ \E q \in PassPixels \ pc.done :
          LET c == CombineHalvesCall(q[1], q[2], a, b, args.rect, args.r)
          IN  /\ mean' = IF args.has_mean THEN Store(mean, c.idx, c.mean) ELSE mean
              /\ IF args.has_variance
                 THEN \E val \in c.variances : variance' = Store(variance, c.idx, val)
                 ELSE variance' = variance
              /\ Invoked(q, CombineAccess(c, args.r, args.has_mean, args.has_variance))
    /\ UNCHANGED <<args, tiles, a, b, unfilteredA, unfilteredB, sampleVariance,
                   sampleVarianceV, bufferVariance, store, reader>>

\* the rectangle of a pass is at most MaxPass pixels wide and high
MaxPass == 2

InitPass ==
    /\ \E op \in {"divide_shadow", "get_feature", "combine_halves"},
          origin \in {<<0, 0>>, <<1, 1>>}, w \in 1..MaxPass, h \in 1..MaxPass :
          LET rect == [x |-> origin[1], y |-> origin[2],
                       z |-> origin[1] + w, w |-> origin[2] + h]
              size == BufferW(rect) * h
          IN  /\ pc = [spec |-> "pass", op |-> op, done |-> {}]
              /\ IF op = "combine_halves"
                 THEN \E r \in 0..MaxRadius, pattern \in HalfPatterns,
                         out \in {<<TRUE, TRUE>>, <<FALSE, TRUE>>} :
                         /\ args = [sample |-> MaxSample, rect |-> rect, r |-> r,
                                    has_mean |-> out[1], has_variance |-> out[2],
                                    buffer_pass_stride |-> RecordLen,
                                    buffer_denoising_offset |-> 0,
                                    m_offset |-> 0, v_offset |-> 1,
                                    use_split_variance |-> FALSE]
                         /\ tiles = <<>>
                         /\ a = [i \in 0..(size - 1) |-> HalfA(pattern, i, 0)]
                         /\ b = [i \in 0..(size - 1) |-> HalfB(pattern, i, 0)]
                 ELSE \E sample \in {2, MaxSample}, split \in BOOLEAN :
                         /\ args = [sample |-> sample, rect |-> rect, r |-> 0,
                                    has_mean |-> TRUE, has_variance |-> TRUE,
                                    buffer_pass_stride |-> RecordLen,
                                    buffer_denoising_offset |-> 0,
                                    m_offset |-> 0, v_offset |-> 1,
                                    use_split_variance |-> split]
                         /\ tiles \in {Layout(1, 2, 1, 2), Layout(1, MaxCoord, 2, MaxCoord)}
                         /\ a = Unwritten /\ b = Unwritten
    /\ unfilteredA = Unwritten /\ unfilteredB = Unwritten
    /\ sampleVariance = Unwritten /\ sampleVarianceV = Unwritten
    /\ bufferVariance = Unwritten
    /\ mean = Unwritten /\ variance = Unwritten
    /\ locals = <<>>
    /\ store = NoStore /\ reader = NoReader

NextPass == PassDivideShadow \/ PassGetFeature \/ PassCombineHalves

SpecPass == InitPass /\ [][NextPass]_vars

-----------------------------------------------------------------------------
(* Claim about the parallel passes *)

\* the element of rectangle space that belongs to pixel q
ElementOf(q) == (q[2] - args.rect.y) * RowWidth(args.rect) + (q[1] - args.rect.x)

\* what the pass writes for pixel q, from the inputs alone
WrittenFor(q) ==
    CASE pc.op = "divide_shadow" ->
            LET c == DivideShadowCall(args.sample, tiles, q[1], q[2], args.rect,
                                      args.buffer_pass_stride, args.buffer_denoising_offset,
                                      args.use_split_variance)
            IN  [unfilteredA |-> c.unfilteredA, unfilteredB |-> c.unfilteredB,
                 sampleVariance |-> c.sampleVariance, sampleVarianceV |-> c.sampleVarianceV,
                 bufferVariance |-> c.bufferVariance]
      [] pc.op = "get_feature" ->
            LET c == GetFeatureCall(args.sample, tiles, args.m_offset, args.v_offset,
                                    q[1], q[2], args.rect, args.buffer_pass_stride,
                                    args.buffer_denoising_offset, args.use_split_variance)
            IN  [mean |-> c.mean, variance |-> CHOOSE val \in c.variances : TRUE]
      [] pc.op = "combine_halves" ->
            LET c == CombineHalvesCall(q[1], q[2], a, b, args.rect, args.r)
            IN  [mean |-> c.mean, variance |-> CHOOSE val \in c.variances : TRUE]

\* the output arrays of the pass, by name
PassOutputs ==
    CASE pc.op = "divide_shadow" ->
            [unfilteredA |-> unfilteredA, unfilteredB |-> unfilteredB,
             sampleVariance |-> sampleVariance, sampleVarianceV |-> sampleVarianceV,
             bufferVariance |-> bufferVariance]
      [] pc.op = "get_feature" -> [mean |-> mean, variance |-> variance]
      [] pc.op = "combine_halves" ->
            IF args.has_mean THEN [mean |-> mean, variance |-> variance]
            ELSE [variance |-> variance]

\* C11: when one kernel is invoked once per pixel of the rectangle, in any
\* order, no two invocations for distinct pixels write the same element of an
\* output array, no invocation reads an element another invocation writes
\* (output arrays distinct from a, b and the tile buffers), and the output
\* arrays hold, for every invoked pixel, the value its invocation computes from
\* the inputs alone, so the final arrays are the same for every interleaving.
C11_ParallelPass ==
    pc.spec = "pass" =>
        /\ DOMAIN locals = pc.done
        /\ \A q \in pc.done, o \in pc.done :
              q # o => /\ locals[q].writes \cap locals[o].writes = {}
                       /\ locals[q].reads \cap locals[o].writes = {}
        /\ \A name \in DOMAIN PassOutputs :
              /\ DOMAIN PassOutputs[name] = {ElementOf(q) : q \in pc.done}
              /\ Cardinality(DOMAIN PassOutputs[name]) = Cardinality(pc.done)
              /\ \A q \in pc.done :
                    /\ <<name, ElementOf(q)>> \in locals[q].writes
                    /\ PassOutputs[name][ElementOf(q)] = WrittenFor(q)[name]

\* a finished windowed pass over a 2x2 rectangle: every invocation read the
\* a and b elements of the other pixels
C11_Witness ==
    /\ pc.spec = "pass" /\ pc.op = "combine_halves" /\ args.r >= 1
    /\ pc.done = PassPixels
    /\ Cardinality(pc.done) = 4
    /\ \A q \in pc.done : Cardinality(locals[q].reads) = 8
    /\ Cardinality(DOMAIN variance) = 4
    /\ \E q \in pc.done, o \in pc.done : <<"a", ElementOf(o)>> \in locals[q].reads /\ q # o

-----------------------------------------------------------------------------
(* CustomDataReader::read_sample *)

\* the custom-data layer types of the model, in the order of the enumeration:
\* one type without a reader and the four types with a read_sample
\* specialization
LayerTypes == <<"CD_MVERT", "CD_MDEFORMVERT", "CD_MCOL", "CD_ORIGINDEX", "CD_ORIGSPACE">>

TypeSet == {LayerTypes[k] : k \in 1..Len(LayerTypes)}

\* read_sample<CDTYPE> on a stored layer (the element counts of its array
\* samples, in the order the reader opens them) for num_data elements
ReadSampleTyped(type, sizes, num_data) ==
    CASE type = "CD_MDEFORMVERT" ->
            IF sizes[1] # num_data \/ sizes[2] # num_data
            THEN "PTC_READ_SAMPLE_INVALID" ELSE "PTC_READ_SAMPLE_EXACT"
      [] type = "CD_MCOL" ->
            IF sizes[1] # num_data
            THEN "PTC_READ_SAMPLE_INVALID" ELSE "PTC_READ_SAMPLE_EXACT"
      [] type = "CD_ORIGINDEX" ->
            IF sizes[1] # num_data
            THEN "PTC_READ_SAMPLE_INVALID" ELSE "PTC_READ_SAMPLE_EXACT"
      [] type = "CD_ORIGSPACE" ->
            IF sizes[1] # num_data \/ sizes[2] # num_data
                \/ sizes[3] # num_data \/ sizes[4] # num_data
            THEN "PTC_READ_SAMPLE_INVALID" ELSE "PTC_READ_SAMPLE_EXACT"
      [] OTHER -> "PTC_READ_SAMPLE_INVALID"

\* read_sample_call<CDTYPE>: the recursive dispatch by layer type, from the
\* k-th type of the enumeration on, with its terminator
RECURSIVE ReadSampleCall(_, _, _, _)
ReadSampleCall(k, type, sizes, num_data) ==
    IF k > Len(LayerTypes) THEN "PTC_READ_SAMPLE_INVALID"
    ELSE IF type = LayerTypes[k] THEN ReadSampleTyped(type, sizes, num_data)
    ELSE ReadSampleCall(k + 1, type, sizes, num_data)

\* the layers the loops of lines 456-485 visit, in order: for every type of
\* the mask that has a compound in the store, every property of the compound
RECURSIVE VisitedLayers(_, _, _)
VisitedLayers(k, m_cdmask, props) ==
    IF k > Len(LayerTypes) THEN <<>>
    ELSE LET type == LayerTypes[k]
             here == IF type \in m_cdmask /\ type \in DOMAIN props
                     THEN [i \in 1..Len(props[type]) |->
                              [type |-> type, sizes |-> props[type][i]]]
                     ELSE <<>>
         IN  here \o VisitedLayers(k + 1, m_cdmask, props)

\* the value the call returns (line 487), given the results of its per-layer reads
ReadSampleReturn(results) == "PTC_READ_SAMPLE_EXACT"

\* CustomDataReader::read_sample(ss, cdata, num_data, parent)
ReadSample ==
    /\ pc.spec = "read"
    /\ "read_sample" \notin pc.returned
    /\ LET visited == VisitedLayers(1, store.m_cdmask, store.props)
           results == [i \in 1..Len(visited) |->
                          ReadSampleCall(1, visited[i].type, visited[i].sizes,
                                         store.num_data)]
       IN  reader' = [cdata |-> [i \in 1..Len(visited) |->
                                    [type |-> visited[i].type, totlayer |-> store.num_data]],
                      results |-> results,
                      ret |-> ReadSampleReturn(results)]
    /\ pc' = [pc EXCEPT !.returned = @ \cup {"read_sample"}]
    /\ UNCHANGED <<args, tiles, a, b, unfilteredA, unfilteredB, sampleVariance,
                   sampleVarianceV, bufferVariance, mean, variance, locals, store>>

\* stored array samples and num_data hold 1..MaxData elements
MaxData == 2
\* a stored layer type holds 1..MaxLayers layers
MaxLayers == 2

\* the number of array samples read_sample<type> reads of a layer
ArraysOf(type) ==
    CASE type = "CD_MDEFORMVERT" -> 2
      [] type = "CD_ORIGSPACE" -> 4
      [] OTHER -> 1

InitRead ==
    /\ pc = [spec |-> "read", returned |-> {}]
    /\ args = <<>> /\ tiles = <<>>
    /\ a = Unwritten /\ b = Unwritten
    /\ unfilteredA = Unwritten /\ unfilteredB = Unwritten
    /\ sampleVariance = Unwritten /\ sampleVarianceV = Unwritten
    /\ bufferVariance = Unwritten
    /\ mean = Unwritten /\ variance = Unwritten
    /\ locals = NoLocals
    /\ reader = NoReader
    /\ \E m_cdmask \in SUBSET TypeSet, stored \in SUBSET TypeSet,
          num_data \in 1..MaxData, size \in 1..MaxData, layers \in 1..MaxLayers,
          ragged \in BOOLEAN :
          store = [m_cdmask |-> m_cdmask, num_data |-> num_data,
                   props |-> [type \in stored |->
                                [i \in 1..layers |->
                                    [j \in 1..ArraysOf(type) |->
                                        IF ragged /\ i = layers /\ j = ArraysOf(type)
                                        THEN size - 1 ELSE size]]]]

NextRead == ReadSample

SpecRead == InitRead /\ [][NextRead]_vars

ReadReturned == pc.spec = "read" /\ "read_sample" \in pc.returned

\* C3: whenever a per-layer read of a selected layer returns the invalid
\* result (sample size differs from num_data, or the type has no reader),
\* CustomDataReader::read_sample returns PTC_READ_SAMPLE_INVALID; it returns
\* PTC_READ_SAMPLE_EXACT only if every per-layer read returned exact match.
C3_InvalidPropagated ==
    ReadReturned =>
        /\ (\E i \in 1..Len(reader.results) : reader.results[i] = "PTC_READ_SAMPLE_INVALID")
              => reader.ret = "PTC_READ_SAMPLE_INVALID"
        /\ reader.ret = "PTC_READ_SAMPLE_EXACT"
              => \A i \in 1..Len(reader.results) : reader.results[i] = "PTC_READ_SAMPLE_EXACT"

=============================================================================
